---- MODULE Spec2Model ----
(***************************************************************************)
(* Model of discogs.py: the per-item reconciliation loop fetch_rows and    *)
(* the pure helpers it uses (clean_text, join_names, summarize_formats,    *)
(* pick).                                                                  *)
(*                                                                         *)
(* Python values are tagged records:                                       *)
(*   None            [t |-> "none"]                                        *)
(*   str             [t |-> "str",  v |-> sequence of one-character        *)
(*                                        strings]                         *)
(*   int             [t |-> "int",  v |-> integer]                         *)
(*   list            [t |-> "list", v |-> sequence of values]              *)
(*   dict            [t |-> "dict", v |-> function from key to value]      *)
(***************************************************************************)
EXTENDS Integers, Sequences, FiniteSets, TLC

VARIABLES
    listing,     \* folder.releases: the collection items, in listing order
    responses,   \* what d.release(rel_id) does for each item of the listing
    enabled,     \* INCLUDE_FULL_RELEASE
    total,       \* folder.releases.count
    i,           \* the loop counter of fetch_rows
    rel_id,      \* local rel_id of the current iteration
    full,        \* local full of the current iteration
    rows,        \* the list fetch_rows accumulates and returns
    log,         \* the side effects so far: sleeps, detail fetches, prints
    pc           \* position in fetch_rows

vars == <<listing, responses, enabled, total, i, rel_id, full, rows, log, pc>>

----------------------------------------------------------------------------
\* Python values

None == [t |-> "none"]
Str(s) == [t |-> "str", v |-> s]
Num(n) == [t |-> "int", v |-> n]
List(xs) == [t |-> "list", v |-> xs]
Dict(f) == [t |-> "dict", v |-> f]

EmptyStr == Str(<< >>)
EmptyList == List(<< >>)
EmptyDict == Dict([k \in {} |-> None])

IsNone(x) == x.t = "none"
IsStr(x) == x.t = "str"
IsList(x) == x.t = "list"
IsDict(x) == x.t = "dict"

\* bool(x)
Truthy(x) ==
    CASE x.t = "none" -> FALSE
      [] x.t = "int" -> x.v # 0
      [] x.t = "str" -> Len(x.v) > 0
      [] x.t = "list" -> Len(x.v) > 0
      [] x.t = "dict" -> DOMAIN x.v # {}

\* x or y
Or(x, y) == IF Truthy(x) THEN x ELSE y

\* d.get(key, default) and d.get(key)
GetD(d, key, default) == IF key \in DOMAIN d.v THEN d.v[key] ELSE default
Get(d, key) == GetD(d, key, None)

----------------------------------------------------------------------------
\* Text

\* A character of a str is a string: an ASCII character is written as itself
\* (the vertical tab 0x0B and the separators 0x1C to 0x1F as the characters
\* themselves), a character beyond ASCII as "U+" and its code point in four
\* hexadecimal digits, so that <<"a", "U+00A0", "b">> is 'a\xa0b'.
VT == ""
FS == ""
GS == ""
RS == ""
US == ""

\* the ASCII characters re's \s (on a str pattern) and str.strip() take as
\* whitespace
AsciiWhitespace == {" ", "\t", "\n", "\r", "\f", VT, FS, GS, RS, US}

\* the characters beyond ASCII they take as whitespace
UnicodeWhitespace ==
    {"U+0085", "U+00A0", "U+1680", "U+2000", "U+2001", "U+2002", "U+2003",
     "U+2004", "U+2005", "U+2006", "U+2007", "U+2008", "U+2009", "U+200A",
     "U+2028", "U+2029", "U+202F", "U+205F", "U+3000"}

Whitespace == AsciiWhitespace \cup UnicodeWhitespace

DigitChars == <<"0","1","2","3","4","5","6","7","8","9">>

RECURSIVE Digits(_)
Digits(n) ==
    IF n < 10 THEN <<DigitChars[n + 1]>>
    ELSE Digits(n \div 10) \o Digits(n % 10)

\* str(x) for the scalars a record field holds (str, int, None)
ToStr(x) ==
    CASE x.t = "str" -> x.v
      [] x.t = "int" -> IF x.v < 0 THEN <<"-">> \o Digits(-x.v) ELSE Digits(x.v)
      [] x.t = "none" -> <<"N","o","n","e">>

\* s.replace(a, " ") for a one-character a
Replace(s, a) == [k \in 1..Len(s) |-> IF s[k] = a THEN " " ELSE s[k]]

\* re.sub(r"\s+", " ", s)
RECURSIVE CollapseWs(_)
CollapseWs(s) ==
    IF s = << >> THEN << >>
    ELSE IF Head(s) \in Whitespace
         THEN IF Len(s) > 1 /\ s[2] \in Whitespace
              THEN CollapseWs(Tail(s))
              ELSE <<" ">> \o CollapseWs(Tail(s))
         ELSE <<Head(s)>> \o CollapseWs(Tail(s))

\* s.strip()
RECURSIVE LStrip(_)
LStrip(s) ==
    IF s # << >> /\ Head(s) \in Whitespace THEN LStrip(Tail(s)) ELSE s

RECURSIVE RStrip(_)
RStrip(s) ==
    IF s # << >> /\ s[Len(s)] \in Whitespace THEN RStrip(SubSeq(s, 1, Len(s) - 1)) ELSE s

Strip(s) == RStrip(LStrip(s))

\* mutant: None is passed through
clean_text_passNone(s) ==
    IF IsNone(s) THEN s
    ELSE Str(Strip(CollapseWs(Replace(Replace(Replace(ToStr(s), "\r"), "\n"), "\t"))))

clean_text(s) ==
    IF IsNone(s) THEN EmptyStr
    ELSE Str(Strip(CollapseWs(Replace(Replace(Replace(ToStr(s), "\r"), "\n"), "\t"))))

\* sep.join(parts) for a sequence of character sequences
RECURSIVE Join(_, _)
Join(sep, parts) ==
    IF parts = << >> THEN << >>
    ELSE IF Len(parts) = 1 THEN parts[1]
    ELSE parts[1] \o sep \o Join(sep, Tail(parts))

Bar == <<"|">>

\* k in s
Contains(s, k) ==
    \E p \in 1..(Len(s) - Len(k) + 1) : SubSeq(s, p, p + Len(k) - 1) = k

\* the concatenation of a sequence of sequences
RECURSIVE Flatten(_)
Flatten(ss) == IF ss = << >> THEN << >> ELSE Head(ss) \o Flatten(Tail(ss))

----------------------------------------------------------------------------
\* join_names

\* [o.get("name","") for o in objs if isinstance(o, dict) and o.get("name")]
NamesOf(objs) ==
    LET kept == SelectSeq(objs, LAMBDA o : IsDict(o) /\ Truthy(Get(o, "name")))
    IN  [k \in 1..Len(kept) |-> GetD(kept[k], "name", EmptyStr).v]

join_names(objs) ==
    IF ~IsList(objs) THEN EmptyStr
    ELSE Str(Join(Bar, NamesOf(objs.v)))

----------------------------------------------------------------------------
\* summarize_formats

Keywords ==
    << <<"c","o","l","o","r","e","d">>, <<"r","e","d">>, <<"b","l","u","e">>,
       <<"g","r","e","e","n">>, <<"m","a","r","b","l","e","d">>,
       <<"s","p","l","a","t","t","e","r">>, <<"l","i","m","i","t","e","d">>,
       <<"r","e","i","s","s","u","e">>, <<"r","e","m","a","s","t","e","r","e","d">>,
       <<"c","l","u","b">> >>

\* any(k in d.lower() for k in [...]). The keywords are ASCII letters, so a
\* keyword occurs in d.lower() exactly where the letters of d, with A to Z
\* taken to a to z, spell it: of the characters beyond ASCII only U+0130 and
\* U+212A lower to a text with an ASCII letter ("i" followed by U+0307, and
\* "k"), no keyword ends in "i" and none holds a "k".
HasKeyword(d) ==
    LET upper == <<"A","B","C","D","E","F","G","H","I","J","K","L","M",
                   "N","O","P","Q","R","S","T","U","V","W","X","Y","Z">>
        lower == <<"a","b","c","d","e","f","g","h","i","j","k","l","m",
                   "n","o","p","q","r","s","t","u","v","w","x","y","z">>
        low == [k \in 1..Len(d) |->
                   IF \E n \in 1..26 : upper[n] = d[k]
                   THEN lower[CHOOSE n \in 1..26 : upper[n] = d[k]]
                   ELSE d[k]]
    IN  \E n \in 1..Len(Keywords) : Contains(low, Keywords[n])

\* (fmt.get(key) or "").strip()
FmtField(fmt, key) == Strip(Or(Get(fmt, key), EmptyStr).v)

\* fmt.get("descriptions", []) or []
FmtDescs(fmt) == Or(GetD(fmt, "descriptions", EmptyList), EmptyList).v

\* what one format entry appends to variant_bits
EntryBits(fmt) ==
    LET text == FmtField(fmt, "text")
        descs == FmtDescs(fmt)
        stripped == [k \in 1..Len(descs) |-> Strip(Or(descs[k], EmptyStr).v)]
    IN  (IF text # << >> THEN <<text>> ELSE << >>)
        \o SelectSeq(stripped, LAMBDA d : d # << >> /\ HasKeyword(d))

\* the piece one format entry contributes to parts (empty: none)
EntryPiece(fmt) ==
    LET name == FmtField(fmt, "name")
        qty == FmtField(fmt, "qty")
        text == FmtField(fmt, "text")
        descs == SelectSeq(FmtDescs(fmt), Truthy)
        p0 == Strip(Join(<<" ">>, <<name>> \o [k \in 1..Len(descs) |-> descs[k].v]))
        p1 == IF text # << >> THEN Strip(p0 \o <<" ", "(">> \o text \o <<")">>) ELSE p0
    IN  IF qty # << >> THEN Strip(p1 \o <<" ", "x">> \o qty) ELSE p1

\* mutant: a bit is dropped only when it repeats the bit right before it
RECURSIVE Unique_adjacent(_, _)
Unique_adjacent(bits, seen) ==
    IF bits = << >> THEN << >>
    ELSE IF Head(bits) \in seen THEN Unique_adjacent(Tail(bits), seen)
    ELSE <<Head(bits)>> \o Unique_adjacent(Tail(bits), {Head(bits)})

\* [b for b in variant_bits if not (b in seen or seen.add(b))]
RECURSIVE Unique(_, _)
Unique(bits, seen) ==
    IF bits = << >> THEN << >>
    ELSE IF Head(bits) \in seen THEN Unique(Tail(bits), seen)
    ELSE <<Head(bits)>> \o Unique(Tail(bits), seen \cup {Head(bits)})

\* the dict entries of fmt_list, the others skipped
FmtEntries(fmt_list) == SelectSeq(fmt_list.v, IsDict)

\* variant_bits after the loop
VariantBits(fmt_list) ==
    LET es == FmtEntries(fmt_list)
    IN  Flatten([k \in 1..Len(es) |-> EntryBits(es[k])])

\* parts after the loop
Parts(fmt_list) ==
    LET es == FmtEntries(fmt_list)
    IN  SelectSeq([k \in 1..Len(es) |-> EntryPiece(es[k])], LAMBDA p : p # << >>)

\* the pair (format summary, variant)
summarize_formats(fmt_list) ==
    IF ~IsList(fmt_list) THEN <<EmptyStr, EmptyStr>>
    ELSE <<Str(Join(Bar, Parts(fmt_list))),
           clean_text(Str(Join(Bar, Unique(VariantBits(fmt_list), {}))))>>

----------------------------------------------------------------------------
\* pick

\* mutant: the full record as a whole decides the source
pick_wholeRecord(key, fullRec, basic, default) ==
    IF Truthy(fullRec) THEN Get(fullRec, key) ELSE GetD(Or(basic, EmptyDict), key, default)

\* mutant: the presence of the key in the full record decides the source
pick_keyPresence(key, fullRec, basic, default) ==
    IF key \in DOMAIN Or(fullRec, EmptyDict).v THEN Get(fullRec, key)
    ELSE GetD(Or(basic, EmptyDict), key, default)

pick(key, fullRec, basic, default) ==
    Or(Get(Or(fullRec, EmptyDict), key), GetD(Or(basic, EmptyDict), key, default))

----------------------------------------------------------------------------
\* fetch_rows: one iteration's pure part

\* ci = getattr(item, "data", {}) or {}
CollectionInfo(item) == Or(item.data, EmptyDict)

\* basic = ci.get("basic_information", {}) or {}
BasicInfo(item) == Or(GetD(CollectionInfo(item), "basic_information", EmptyDict), EmptyDict)

\* getattr(item.release, "id", None) or basic.get("id")
ResolveRelId(item) == Or(Get(item.release, "id"), Get(BasicInfo(item), "id"))

\* [l.get("catno","") for l in (labels or []) if isinstance(l, dict) and l.get("catno")]
CatnosOf(labels) ==
    LET ls == Or(labels, EmptyList).v
        kept == SelectSeq(ls, LAMBDA l : IsDict(l) /\ Truthy(Get(l, "catno")))
    IN  [k \in 1..Len(kept) |-> GetD(kept[k], "catno", EmptyStr).v]

\* "|".join(xs or [])
JoinList(xs) ==
    LET ys == Or(xs, EmptyList).v
    IN  Str(Join(Bar, [k \in 1..Len(ys) |-> ys[k].v]))

\* the default of the release date: basic.get("released_formatted") or basic.get("year")
ReleasedDefault(basic) == Or(Get(basic, "released_formatted"), Get(basic, "year"))

\* the row dict assembled from the item, its release id and its full record
BuildRow(item, rid, fullRec) ==
    LET ci == CollectionInfo(item)
        basic == BasicInfo(item)
        artists == pick("artists", fullRec, basic, EmptyList)
        labels == pick("labels", fullRec, basic, EmptyList)
        formats == pick("formats", fullRec, basic, EmptyList)
        genres == pick("genres", fullRec, basic, EmptyList)
        styles == pick("styles", fullRec, basic, EmptyList)
        fv == summarize_formats(formats)
    IN  [release_id |-> rid,
         master_id |-> pick("master_id", fullRec, basic, None),
         artist |-> clean_text(join_names(artists)),
         title |-> clean_text(pick("title", fullRec, basic, EmptyStr)),
         date_added |-> clean_text(Get(ci, "date_added")),
         variant |-> fv[2],
         format |-> fv[1],
         release_date |-> clean_text(pick("released", fullRec, basic, ReleasedDefault(basic))),
         country |-> clean_text(pick("country", fullRec, basic, EmptyStr)),
         label |-> clean_text(join_names(labels)),
         catno |-> Str(Join(Bar, CatnosOf(labels))),
         genres |-> JoinList(genres),
         styles |-> JoinList(styles)]

----------------------------------------------------------------------------
\* fetch_rows: the loop

PROGRESS_EVERY == 25

Event(e, n, arg) == [e |-> e, i |-> n, arg |-> arg]

\* lines 90-97: the client, the folder, the first print, rows = [], i = 0
Start ==
    /\ pc = "start"
    /\ log' = Append(log, Event("start", 0, Num(total)))
    /\ rows' = << >>
    /\ i' = 0
    /\ pc' = "loop"
    /\ UNCHANGED <<listing, responses, enabled, total, rel_id, full>>

\* mutant: the sleep is taken only for an item that has an id
LoopHead_sleepIfId ==
    /\ pc = "loop"
    /\ i < Len(listing)
    /\ i' = i + 1
    /\ log' = IF Truthy(ResolveRelId(listing[i + 1]))
              THEN Append(log, Event("sleep", i + 1, None))
              ELSE log
    /\ pc' = "resolve"
    /\ UNCHANGED <<listing, responses, enabled, total, rel_id, full, rows>>

\* lines 98-100: the next item, i += 1, time.sleep(SLEEP_BETWEEN_CALLS)
LoopHead ==
    /\ pc = "loop"
    /\ i < Len(listing)
    /\ i' = i + 1
    /\ log' = Append(log, Event("sleep", i + 1, None))
    /\ pc' = "resolve"
    /\ UNCHANGED <<listing, responses, enabled, total, rel_id, full, rows>>

\* mutant: only a missing id skips the item, a falsy one does not
ResolveId_isNone ==
    /\ pc = "resolve"
    /\ rel_id' = ResolveRelId(listing[i])
    /\ IF IsNone(rel_id')
       THEN pc' = "loop" /\ full' = full
       ELSE full' = EmptyDict /\ pc' = (IF enabled THEN "fetch" ELSE "assemble")
    /\ UNCHANGED <<listing, responses, enabled, total, i, rows, log>>

\* lines 102-110: ci, basic, rel_id; continue without an id; full = {}
ResolveId ==
    /\ pc = "resolve"
    /\ rel_id' = ResolveRelId(listing[i])
    /\ IF ~Truthy(rel_id')
       THEN pc' = "loop" /\ full' = full
       ELSE full' = EmptyDict /\ pc' = (IF enabled THEN "fetch" ELSE "assemble")
    /\ UNCHANGED <<listing, responses, enabled, total, i, rows, log>>

\* full after the try block of lines 111-115, for the answer of d.release(rel_id)
FetchOutcome(resp) ==
    IF resp.ok THEN Or(resp.data, EmptyDict)
    ELSE Dict("_fetch_error" :> resp.err)

\* mutant: HTTPError is not caught
AfterFetch_raise(resp) == IF resp.ok THEN "assemble" ELSE "raised"

\* pc after the try block of lines 111-115: HTTPError is caught
AfterFetch(resp) == "assemble"

\* lines 111-115: rel = d.release(rel_id); full = rel.data or {}; except HTTPError
FetchDetail ==
    /\ pc = "fetch"
    /\ log' = Append(log, Event("release", i, rel_id))
    /\ full' = FetchOutcome(responses[i])
    /\ pc' = AfterFetch(responses[i])
    /\ UNCHANGED <<listing, responses, enabled, total, i, rel_id, rows>>

\* lines 117-148: the row, rows.append(row), the progress print
Assemble ==
    /\ pc = "assemble"
    /\ rows' = Append(rows, BuildRow(listing[i], rel_id, full))
    /\ log' = IF i % PROGRESS_EVERY = 0
              THEN Append(log, Event("print", i, Num(total)))
              ELSE log
    /\ pc' = "loop"
    /\ UNCHANGED <<listing, responses, enabled, total, i, rel_id, full>>

\* line 150: return rows
Return ==
    /\ pc = "loop"
    /\ i = Len(listing)
    /\ pc' = "done"
    /\ UNCHANGED <<listing, responses, enabled, total, i, rel_id, full, rows, log>>

Next == Start \/ LoopHead \/ ResolveId \/ FetchDetail \/ Assemble \/ Return

----------------------------------------------------------------------------
\* Inputs: the listings and the answers of the detail fetch

MaxItems == 2
MaxStrLen == 3
MaxFormats == 2
MaxTotal == 50

\* a key a dict does not have
Absent == [t |-> "absent"]

\* the dict with the keys of f whose value is not Absent
MkDict(f) == Dict([k \in {k \in DOMAIN f : f[k].t # "absent"} |-> f[k]])

SeqsUpTo(S, n) == UNION {[1..m -> S] : m \in 0..n}

Item(data, release) == [data |-> data, release |-> release]
Ok(data) == [ok |-> TRUE, data |-> data, err |-> None]
HttpError(msg) == [ok |-> FALSE, data |-> None, err |-> Str(msg)]

WithId(n) == Dict("id" :> Num(n))
NoId == EmptyDict

\* ---- the listings of Spec: a few whole items, every order, every answer

ItemA ==
    Item(MkDict([date_added |-> Str(<<"2","0","2","0","-","0","1","-","0","2">>),
                 basic_information |-> MkDict([
                     id |-> Num(1), master_id |-> Num(10), title |-> Str(<<"A","l","b","u","m"," ","A">>),
                     artists |-> List(<<MkDict([name |-> Str(<<"A","n","n">>)]), MkDict([name |-> Str(<<"B","o">>)])>>),
                     labels |-> List(<<MkDict([name |-> Str(<<"E","M","I">>), catno |-> Str(<<"E"," ","1">>)])>>),
                     formats |-> List(<<MkDict([name |-> Str(<<"V","i","n","y","l">>), qty |-> Str(<<"1">>), text |-> Str(<<"R","e","d">>),
                                                descriptions |-> List(<<Str(<<"L","P">>), Str(<<"R","e","i","s","s","u","e">>)>>)])>>),
                     genres |-> List(<<Str(<<"R","o","c","k">>), Str(<<"P","o","p">>)>>),
                     styles |-> List(<<Str(<<"I","n","d","i","e">>)>>),
                     country |-> Str(<<"U","K">>), year |-> Num(1999)])]),
         WithId(1))

ItemB ==
    Item(MkDict([date_added |-> Str(<<"2","0","2","1">>),
                 basic_information |-> MkDict([
                     id |-> Num(2), title |-> Str(<<"A","l","b","u","m"," ","B">>),
                     formats |-> List(<<MkDict([name |-> Str(<<"C","D">>)])>>)])]),
         NoId)

\* no id anywhere
ItemNoId ==
    Item(MkDict([date_added |-> Str(<<"2","0","2","2">>),
                 basic_information |-> MkDict([title |-> Str(<<"C">>)])]),
         NoId)

\* only falsy ids
ItemZeroId ==
    Item(MkDict([basic_information |-> MkDict([id |-> Num(0), title |-> Str(<<"D">>)])]),
         Dict("id" :> None))

\* no data at all, the id on the release
ItemBare == Item(None, WithId(3))

FetchItems == {ItemA, ItemB, ItemNoId, ItemZeroId, ItemBare}

FullA ==
    MkDict([id |-> Num(1), master_id |-> Num(11), title |-> Str(<<"A","l","b","u","m"," ","A">>),
            formats |-> List(<<MkDict([name |-> Str(<<"V","i","n","y","l">>), qty |-> Str(<<"1">>),
                                       descriptions |-> List(<<Str(<<"L","P">>)>>)])>>),
            country |-> Str(<< >>), released |-> Str(<<"2","0","0","1","-","0","5","-","0","1">>),
            identifiers |-> List(<<MkDict([type |-> Str(<<"B","a","r","c","o","d","e">>), value |-> Str(<<"1","2","3">>)])>>)])

FetchResponses == {Ok(FullA), Ok(None), HttpError(<<"4","0","4">>)}

Worlds(items, resps, n) ==
    {w \in SeqsUpTo(items \X resps, n) : TRUE}

InitLocals ==
    /\ total = Len(listing)
    /\ i = 0
    /\ rel_id = None
    /\ full = None
    /\ rows = << >>
    /\ log = << >>
    /\ pc = "start"

Init ==
    /\ \E w \in Worlds(FetchItems, FetchResponses, MaxItems) :
        /\ listing = [k \in 1..Len(w) |-> w[k][1]]
        /\ responses = [k \in 1..Len(w) |-> w[k][2]]
    /\ enabled \in BOOLEAN
    /\ InitLocals

Spec == Init /\ [][Next]_vars

\* ---- the listings of SpecRow: one item, its records drawn field by field

\* scalar fields: absent, None, falsy and truthy in either record
BasicTitles == {Absent, None, Str(<< >>), Str(<<"B","a","s","i","c"," "," ","T">>)}
FullTitles == {Absent, None, Str(<< >>), Str(<<"F","u","l","l"," ","T">>)}
BasicMasters == {Absent, None, Num(0), Num(7)}
FullMasters == {Absent, None, Num(0), Num(8)}
BasicCountries == {Absent, Str(<< >>), Str(<<"U","K">>)}
FullCountries == {Absent, Str(<< >>), Str(<<"U","S">>)}

ScalarWorlds ==
    {<<Item(MkDict([basic_information |->
                      MkDict([id |-> Num(1), title |-> bt, master_id |-> bm, country |-> bc])]),
            WithId(1)),
       Ok(MkDict([title |-> ft, master_id |-> fm, country |-> fc]))>> :
     bt \in BasicTitles, bm \in BasicMasters, bc \in BasicCountries,
     ft \in FullTitles, fm \in FullMasters, fc \in FullCountries}

\* the release date: released in either record, released_formatted and year
BasicReleased == {Absent, None, Str(<< >>), Str(<<"2","0","0","1","-","0","5","-","0","1">>)}
FullReleased == {Absent, None, Str(<< >>), Str(<<"2","0","0","2">>)}
BasicFormatted == {Absent, None, Str(<< >>), Str(<<"M","a","y"," ","2","0","0","1">>)}
BasicYears == {Absent, None, Num(0), Num(2001)}

DateWorlds ==
    {<<Item(MkDict([basic_information |->
                      MkDict([id |-> Num(1), released |-> br, released_formatted |-> bf, year |-> by])]),
            WithId(1)),
       Ok(MkDict([released |-> fr]))>> :
     br \in BasicReleased, bf \in BasicFormatted, by \in BasicYears, fr \in FullReleased}

\* text: every string over Alphabet up to MaxStrLen, in every text-bearing place
Alphabet == {"a", " ", "\t", "\n", "\r", VT, "U+00A0"}
Strings == SeqsUpTo(Alphabet, MaxStrLen)

TextItem(s) ==
    Item(MkDict([date_added |-> Str(s),
                 basic_information |-> MkDict([
                     id |-> Num(1), title |-> Str(s), country |-> Str(s), released |-> Str(s),
                     artists |-> List(<<MkDict([name |-> Str(s)]), MkDict([name |-> Str(<<"b">>)])>>),
                     labels |-> List(<<MkDict([name |-> Str(s), catno |-> Str(s)]),
                                       MkDict([name |-> Str(<<"b">>), catno |-> Str(<<"c">>)])>>),
                     formats |-> List(<<MkDict([name |-> Str(s), qty |-> Str(s), text |-> Str(s),
                                                descriptions |-> List(<<Str(s), Str(<<"L","t","d"," ","C","l","u","b">>)>>)])>>),
                     genres |-> List(<<Str(s), Str(<<"b">>)>>),
                     styles |-> List(<<Str(s)>>)])]),
         WithId(1))

TextWorlds == {<<TextItem(s), r>> : s \in Strings, r \in {Ok(None), HttpError(<<"5","0","0">>)}}

\* formats: up to MaxFormats entries, each with a text and descriptions
FmtTexts == {Absent, Str(<<"R","e","d">>), Str(<<"L","i","m","i","t","e","d">>), Str(<<" ","D","e","e","p"," "," ","R","e","d"," ">>)}
FmtDescLists ==
    {Absent,
     List(<<Str(<<"L","P">>), Str(<<"R","e","d">>)>>),
     List(<<Str(<<"L","i","m","i","t","e","d">>), Str(<<"A","l","b","u","m">>), None>>),
     List(<<Str(<<" ","R","e","d">>), Str(<<"D","e","e","p"," "," ","R","e","d">>)>>)}

FmtEntryPool ==
    {MkDict([name |-> Str(<<"V","i","n","y","l">>), qty |-> (IF t = Absent THEN Absent ELSE Str(<<"1">>)),
             text |-> t, descriptions |-> d]) : t \in FmtTexts, d \in FmtDescLists}
    \cup {Str(<<"x">>)}

FormatWorlds ==
    {<<Item(MkDict([basic_information |-> MkDict([id |-> Num(1), formats |-> List(fs)])]), WithId(1)),
       Ok(None)>> :
     fs \in SeqsUpTo(FmtEntryPool, MaxFormats)}

RowWorlds == ScalarWorlds \cup DateWorlds \cup TextWorlds \cup FormatWorlds

InitRow ==
    /\ \E w \in RowWorlds :
        /\ listing = <<w[1]>>
        /\ responses = <<w[2]>>
    /\ enabled = TRUE
    /\ InitLocals

SpecRow == InitRow /\ [][Next]_vars

\* ---- the listings of SpecProgress: up to MaxTotal plain items, at most one
\* ---- of them without an id, the last one's detail fetch failing or not

PlainItem == Item(MkDict([basic_information |-> MkDict([id |-> Num(1), title |-> Str(<<"a">>)])]), WithId(1))
PlainNoId == Item(MkDict([basic_information |-> MkDict([title |-> Str(<<"a">>)])]), NoId)

InitProgress ==
    /\ \E n \in 0..MaxTotal : \E skip \in 0..n : \E fail \in {0, n} :
        /\ listing = [k \in 1..n |-> IF k = skip THEN PlainNoId ELSE PlainItem]
        /\ responses = [k \in 1..n |-> IF k = fail THEN HttpError(<<"5","0","0">>) ELSE Ok(None)]
    /\ enabled = TRUE
    /\ InitLocals

SpecProgress == InitProgress /\ [][Next]_vars

----------------------------------------------------------------------------
\* Properties

\* the items whose iteration is over
Processed == IF pc \in {"resolve", "fetch", "assemble"} THEN i - 1 ELSE i

\* an item's release id as the listing gives it: item.release.id, else the
\* basic record's id
ListedId(item) ==
    LET r == item.release.v
        b == BasicInfo(item).v
    IN  IF "id" \in DOMAIN r /\ Truthy(r["id"]) THEN r["id"]
        ELSE IF "id" \in DOMAIN b THEN b["id"] ELSE None

\* the positions, among the first n items, of the items with a truthy id
KeptIdx(n) == SelectSeq([j \in 1..n |-> j], LAMBDA j : Truthy(ListedId(listing[j])))

\* whether the detail fetch of item j fails
Fails(j) == enabled /\ ~responses[j].ok

\* the sleep, release and print events of the log
EventsOf(e) == SelectSeq(log, LAMBDA x : x.e = e)

TextFields == {"artist", "title", "date_added", "variant", "format", "release_date",
               "country", "label", "catno", "genres", "styles"}

\* C1: a row built after the detail fetch raised HTTPError equals, field for
\* field, the row built for the same item with full = {} (enrichment disabled).
C1_FallbackTransparency ==
    LET kept == KeptIdx(Processed)
    IN  \A k \in 1..Len(rows) :
            (k <= Len(kept) /\ Fails(kept[k])) =>
                rows[k] = BuildRow(listing[kept[k]], ListedId(listing[kept[k]]), EmptyDict)

C1_Witness ==
    /\ pc = "done"
    /\ \E k \in 1..Len(rows) :
        /\ Fails(KeptIdx(Processed)[k])
        /\ rows[k].title = Str(<<"A","l","b","u","m"," ","A">>)
        /\ rows[k].format.v # << >>
        /\ "_fetch_error" \in DOMAIN full.v

\* C2: the rows are one per item with a truthy id, in listing order: the
\* k-th row carries the id of the k-th such item, and the row count is the
\* item count minus the skipped items.
C2_OneRowPerIdentifiedItem ==
    LET kept == KeptIdx(Processed)
        skipped == {j \in 1..Processed : ~Truthy(ListedId(listing[j]))}
    IN  /\ Len(rows) = Len(kept)
        /\ Len(rows) = Processed - Cardinality(skipped)
        /\ \A k \in 1..Len(rows) : rows[k].release_id = ListedId(listing[kept[k]])
        /\ pc = "done" => Processed = Len(listing)

C2_Witness ==
    /\ pc = "done"
    /\ listing = <<ItemZeroId, ItemB>>
    /\ Len(rows) = 1
    /\ rows[1].release_id = Num(2)

\* C3: a failing detail fetch never aborts the run: the loop goes on to the
\* last item and returns, every item with an id has its row, and the rows of
\* the items whose fetch did not fail are what their own item and answer give.
C3_FailureContainment ==
    LET kept == KeptIdx(Processed)
    IN  /\ pc \in {"start", "loop", "resolve", "fetch", "assemble", "done"}
        /\ pc = "loop" => i <= Len(listing)
        /\ pc \in {"resolve", "fetch", "assemble"} => i \in 1..Len(listing)
        /\ pc = "done" => i = Len(listing)
        /\ Len(rows) = Len(kept)
        /\ \A k \in 1..Len(rows) :
              LET j == kept[k]
              IN  ~Fails(j) =>
                    rows[k] = BuildRow(listing[j], ListedId(listing[j]),
                                       IF enabled THEN Or(responses[j].data, EmptyDict)
                                       ELSE EmptyDict)

C3_Witness ==
    /\ pc = "done"
    /\ enabled
    /\ listing = <<ItemA, ItemB>>
    /\ ~responses[1].ok
    /\ responses[2] = Ok(FullA)
    /\ Len(rows) = 2
    /\ rows[2].format = Str(<<"V","i","n","y","l"," ","L","P"," ","x","1">>)

\* C9: one sleep per listing item, taken before the item's id is resolved and
\* before its detail is fetched, for skipped and failing items too.
C9_OneSleepPerItem ==
    LET sleeps == EventsOf("sleep")
    IN  /\ Len(sleeps) = i
        /\ \A j \in 1..i : sleeps[j] = Event("sleep", j, None)
        /\ pc = "done" => Len(sleeps) = Len(listing)
        /\ pc = "resolve" => log[Len(log)] = Event("sleep", i, None)
        /\ \A p \in 1..Len(log) :
              log[p].e = "release" =>
                  /\ p > 1
                  /\ log[p - 1] = Event("sleep", log[p].i, None)
                  /\ \A q \in 1..Len(log) : (log[q].e = "sleep" /\ log[q].i = log[p].i) => q < p

C9_Witness ==
    /\ pc = "done"
    /\ enabled
    /\ listing = <<ItemNoId, ItemA>>
    /\ ~responses[2].ok
    /\ Len(EventsOf("sleep")) = 2
    /\ Len(EventsOf("release")) = 1

\* ---- the rows of SpecRow: one item, whose row is rows[1] once assembled

HasRow == pc \in {"loop", "done"} /\ Len(rows) = 1

\* the records the row rows[1] was assembled from
RowBasic == BasicInfo(listing[1])
RowFull == full

Has(d, key) == key \in DOMAIN d.v

PickKeys == {"master_id", "title", "country", "released", "artists", "labels",
             "formats", "genres", "styles"}
PickDefaults == {None, EmptyStr, EmptyList, Num(0)}

\* what the fallback policy gives for a key: full's truthy value, else basic's
\* value when basic has the key, else the default
Resolved(key, default) ==
    IF Has(RowFull, key) /\ Truthy(RowFull.v[key]) THEN RowFull.v[key]
    ELSE IF Has(RowBasic, key) THEN RowBasic.v[key]
    ELSE default

\* C4: pick is truthiness-based and per field: full's value when truthy, else
\* basic's value for the key (even when full has the key), else the default;
\* the fields of one row are resolved independently of each other.
C4_PickTruthinessPerField ==
    HasRow =>
        /\ \A key \in PickKeys : \A default \in PickDefaults :
              pick(key, RowFull, RowBasic, default) = Resolved(key, default)
        /\ rows[1].master_id = Resolved("master_id", None)
        /\ rows[1].title = clean_text(Resolved("title", EmptyStr))
        /\ rows[1].country = clean_text(Resolved("country", EmptyStr))

C4_Witness ==
    /\ HasRow
    /\ Has(RowFull, "country") /\ RowFull.v["country"] = EmptyStr
    /\ Has(RowFull, "master_id") /\ RowFull.v["master_id"] = Num(0)
    /\ Has(RowFull, "title")
    /\ rows[1].title = Str(<<"F","u","l","l"," ","T">>)
    /\ rows[1].country = Str(<<"U","K">>)
    /\ rows[1].master_id = Num(7)

\* C5: whenever "released" is falsy in both the full and the basic record
\* (absent, None or empty in either), release_date is the cleaned basic
\* released_formatted when that is truthy, otherwise the cleaned basic year.
C5_ReleaseDateChain ==
    (HasRow /\ ~Truthy(Get(RowFull, "released")) /\ ~Truthy(Get(RowBasic, "released"))) =>
        rows[1].release_date =
            (IF Truthy(Get(RowBasic, "released_formatted"))
             THEN clean_text(Get(RowBasic, "released_formatted"))
             ELSE clean_text(Get(RowBasic, "year")))

AllFields == TextFields \cup {"master_id"}

\* C6 as stated: no field of a row, master_id included, is null.
C6_Original ==
    \A k \in 1..Len(rows) : \A f \in AllFields : ~IsNone(rows[k][f])

\* C6 amended: every text field of a row is a string, the empty string when
\* its source value is absent or None; master_id alone may be null, and is
\* exactly when full's master_id is falsy and basic's is absent or None.
C6_NoNullTextField ==
    /\ \A k \in 1..Len(rows) : \A f \in TextFields : IsStr(rows[k][f])
    /\ HasRow =>
          /\ IsNone(rows[1].master_id) <=>
                (~Truthy(Get(RowFull, "master_id")) /\ IsNone(Get(RowBasic, "master_id")))
          /\ (~Truthy(Get(RowFull, "title")) /\ IsNone(Get(RowBasic, "title"))) =>
                rows[1].title = EmptyStr

C6_Witness ==
    /\ HasRow
    /\ Has(RowBasic, "title") /\ IsNone(RowBasic.v["title"])
    /\ Has(RowFull, "title") /\ IsNone(RowFull.v["title"])
    /\ ~Has(RowBasic, "master_id") /\ ~Has(RowFull, "master_id")
    /\ rows[1].title = EmptyStr
    /\ IsNone(rows[1].master_id)

\* a single-line, whitespace-normalized string
Normalized(s) ==
    /\ \A p \in 1..Len(s) : s[p] \notin {"\r", "\n", "\t"}
    /\ \A p \in 1..(Len(s) - 1) : ~(s[p] \in Whitespace /\ s[p + 1] \in Whitespace)
    /\ s # << >> => (s[1] \notin Whitespace /\ s[Len(s)] \notin Whitespace)

\* C7: every text-bearing field of every row is single-line and
\* whitespace-normalized, whatever whitespace the source values contain.
C7_TextFieldsNormalized ==
    \A k \in 1..Len(rows) : \A f \in TextFields : Normalized(rows[k][f].v)

\* the variant bits of the row's formats, and those kept at first occurrence
RowBits == VariantBits(pick("formats", RowFull, RowBasic, EmptyList))
FirstOccurrences(bits) ==
    LET keep == {p \in 1..Len(bits) : \A q \in 1..(p - 1) : bits[q] # bits[p]}
        pos == SelectSeq([p \in 1..Len(bits) |-> p], LAMBDA p : p \in keep)
    IN  [n \in 1..Len(pos) |-> bits[pos[n]]]

\* C8 as stated: the variant is the |-join of the variant bits, each kept at
\* its first occurrence only.
C8_Original ==
    HasRow => rows[1].variant.v = Join(Bar, FirstOccurrences(RowBits))

\* C8 amended: the variant is the whitespace-normalized (clean_text) |-join of
\* the variant bits, each kept at its first occurrence only, bits compared by
\* exact equality before normalization.
C8_VariantDedup ==
    HasRow => rows[1].variant = clean_text(Str(Join(Bar, FirstOccurrences(RowBits))))

C8_Witness ==
    /\ HasRow
    /\ RowBits = <<<<"R","e","d">>, <<"L","i","m","i","t","e","d">>, <<"R","e","d">>>>
    /\ rows[1].variant = Str(<<"R","e","d","|","L","i","m","i","t","e","d">>)

\* ---- the log of SpecProgress

\* C10: a completed run prints a progress notice, with the running count and
\* the total, for every 25th item of the listing and for no other item.
C10_ProgressEvery25th ==
    pc = "done" =>
        EventsOf("print") =
            [m \in 1..(Len(listing) \div PROGRESS_EVERY) |->
                Event("print", m * PROGRESS_EVERY, Num(Len(listing)))]

====
